---- MODULE Spec2Model ----
(***************************************************************************)
(* rs-tracer (src/src/main.rs): a sphere ray tracer.                       *)
(*                                                                         *)
(* Numbers.  The program computes in f32.  The model computes the same     *)
(* expressions over the reals, exactly, plus NaN:                          *)
(*   - coordinates and radii are integers (a radius may also be NaN);      *)
(*   - a direction is an integer vector (x, y, z) divided by sqrt(n);      *)
(*     normalize(v) is v / sqrt(v.v), and n = 0 stands for the NaN vector  *)
(*     that normalizing the zero vector yields;                            *)
(*   - a distance along a ray is a "surd" (a + sg*sqrt(K)) / sqrt(n) with  *)
(*     integers a, K >= 0, n > 0 and sg in {-1, 1}, or NaN.                *)
(* Comparisons of surds are decided exactly with integer arithmetic.       *)
(* f32 rounding is not modelled.                                           *)
(***************************************************************************)
EXTENDS Integers, Sequences, FiniteSets, TLC

\* scene, camera, render_options, img: the arguments of render_frame (main's
\*   scene, camera, render_options and frame); px_x, px_y: its loop variables;
\* ray: the ray last built (render_frame) or passed (intersects,
\*   closest_intersection); result: what intersects / closest_intersection
\*   returned;
\* pc: "idle" | "loop" | "done" | "panic" in the frame loop, "start" |
\*   "returned" around a single call of intersects / closest_intersection;
\* history: puts, the put_pixel calls of the current render_frame call, in
\*   order; prior, the buffer as it was when that call began; ref, one
\*   finished frame remembered for comparison.
VARIABLES scene, camera, render_options, img, px_x, px_y, pc,
          puts, prior, ref, ray, result

vars == <<scene, camera, render_options, img, px_x, px_y, pc,
          puts, prior, ref, ray, result>>

\* Bounds of the model.
MaxWidth == 2
MaxHeight == 2
MaxSpheres == 2

(***************************************************************************)
(* Integer helpers                                                         *)
(***************************************************************************)
Sgn(i) == IF i > 0 THEN 1 ELSE IF i < 0 THEN -1 ELSE 0

Abs(i) == IF i < 0 THEN -i ELSE i

\* Sign of e + c*sqrt(P), for integers e, c and P >= 0.
SgnRoot(e, c, P) ==
    IF c = 0 \/ P = 0 THEN Sgn(e)
    ELSE IF e >= 0 /\ c > 0 THEN 1
    ELSE IF e <= 0 /\ c < 0 THEN -1
    ELSE IF e > 0 THEN Sgn(e * e - c * c * P)
    ELSE Sgn(c * c * P - e * e)

\* Sign of d + u*sqrt(A) + w*sqrt(B), for u, w in {-1, 1} and A, B >= 0.
SgnTwoRoots(d, u, A, w, B) ==
    LET sR == Sgn(u * A + w * B)
    IN  IF d = 0 THEN sR
        ELSE IF d > 0 /\ sR >= 0 THEN 1
        ELSE IF d < 0 /\ sR <= 0 THEN -1
        ELSE IF d > 0 THEN SgnRoot(d * d - A - B, -2 * u * w, A * B)
        ELSE SgnRoot(A + B - d * d, 2 * u * w, A * B)

(***************************************************************************)
(* f32 values: distances along one ray                                     *)
(***************************************************************************)
NaN == [nan |-> TRUE, a |-> 0, sg |-> 1, K |-> 0, n |-> 1]

Surd(a, sg, K, n) == [nan |-> FALSE, a |-> a, sg |-> sg, K |-> K, n |-> n]

\* Sign of t1 - t2 for two non-NaN distances along the same ray.
SurdCmp(t1, t2) == SgnTwoRoots(t1.a - t2.a, t1.sg, t1.K, -t2.sg, t2.K)

\* f32 `<`: false as soon as an operand is NaN.
Lt(t1, t2) == ~t1.nan /\ ~t2.nan /\ SurdCmp(t1, t2) < 0

\* f32 `< 0.0`.
LtZero(t) == ~t.nan /\ SgnRoot(t.a, t.sg, t.K) < 0

\* f32 `==`.
SurdEq(t1, t2) == ~t1.nan /\ ~t2.nan /\ t1.n = t2.n /\ SurdCmp(t1, t2) = 0

(***************************************************************************)
(* cgmath Point3 / Vector3                                                 *)
(***************************************************************************)
Vec(x, y, z) == [x |-> x, y |-> y, z |-> z]

Sub(p, q) == Vec(p.x - q.x, p.y - q.y, p.z - q.z)

Dot(u, v) == u.x * v.x + u.y * v.y + u.z * v.z

\* v.normalize(): v / sqrt(v.v); the zero vector gives NaN components (n = 0).
normalize(v) == [x |-> v.x, y |-> v.y, z |-> v.z, n |-> Dot(v, v)]

NaNDirection == [x |-> 0, y |-> 0, z |-> 0, n |-> 0]

(***************************************************************************)
(* Option<f32>                                                             *)
(***************************************************************************)
None == [some |-> FALSE, t |-> NaN]

Some(t) == [some |-> TRUE, t |-> t]

(***************************************************************************)
(* Sphere::intersects  (main.rs 18-43)                                     *)
(* A sphere is [center |-> Vec, radius |-> [nan, v]]; a ray is             *)
(* [origin |-> Vec, direction |-> (x, y, z)/sqrt(n)].                      *)
(***************************************************************************)
Radius(v) == [nan |-> FALSE, v |-> v]

NaNRadius == [nan |-> TRUE, v |-> 0]

Sphere(center, radius) == [center |-> center, radius |-> radius]

Ray(origin, direction) == [origin |-> origin, direction |-> direction]

\* A signed square, as `radius * radius.abs()` would give.
radius_squared_signed(s) ==
    [nan |-> s.radius.nan, v |-> s.radius.v * Abs(s.radius.v)]

\* let radius_squared = self.radius * self.radius;
radius_squared(s) == [nan |-> s.radius.nan, v |-> s.radius.v * s.radius.v]

\* The farther root: the comparison of line 42 reversed.
farthest(t0, t1) == IF Lt(t1, t0) THEN Some(t0) ELSE Some(t1)

\* return if t0 < t1 { Some(t0) } else { Some(t1) };
shortest(t0, t1) == IF Lt(t0, t1) THEN Some(t0) ELSE Some(t1)

\* Lines 37-42, given the two roots.
roots(t0, t1) == IF LtZero(t0) /\ LtZero(t1) THEN None ELSE shortest(t0, t1)

\* Lines 28-35, given n, a (tca = a/sqrt(n)) and d2n = d2 * n:
\*   d2 > radius_squared  iff  d2n > n * radius_squared
\*   thc = sqrt(radius_squared - d2) = sqrt(K / n),  K = n * radius_squared - d2n
\*   t0 = (a - sqrt(K)) / sqrt(n),  t1 = (a + sqrt(K)) / sqrt(n)
\* A NaN direction (n = 0) makes d2, thc, t0, t1 NaN and a NaN radius makes
\* thc, t0, t1 NaN; a comparison with a NaN operand is false, so the tests
\* of lines 29, 37 and 42 fail and Some(t1) = Some(NaN) is returned.
miss_or_roots(r2, n, a, d2n) ==
    IF n # 0 /\ ~r2.nan /\ d2n > n * r2.v THEN None
    ELSE IF n = 0 \/ r2.nan THEN Some(NaN)
    ELSE roots(Surd(a, -1, n * r2.v - d2n, n), Surd(a, 1, n * r2.v - d2n, n))

\* Lines 24-42 without the behind-the-origin rejections of lines 24 and 37.
behind_unguarded(r2, n, a, ll) ==
    IF n # 0 /\ ~r2.nan /\ n * ll - a * a > n * r2.v THEN None
    ELSE IF n = 0 \/ r2.nan THEN Some(NaN)
    ELSE shortest(Surd(a, -1, n * r2.v - (n * ll - a * a), n),
                  Surd(a, 1, n * r2.v - (n * ll - a * a), n))

\* Lines 24-28, given a = l . (x, y, z) and ll = l . l:
\*   tca < 0.0 iff a < 0 (false for a NaN direction);
\*   d2 = l.l - tca*tca = (n * ll - a * a) / n.
behind_or_d2(r2, n, a, ll) ==
    IF n # 0 /\ a < 0 THEN None ELSE miss_or_roots(r2, n, a, n * ll - a * a)

\* Line 22, given l = self.center - ray.origin.
tca_of(r2, l, direction) ==
    behind_or_d2(r2, direction.n, Dot(l, direction), Dot(l, l))

intersects(s, r) ==
    tca_of(radius_squared(s), Sub(s.center, r.origin), r.direction)

(***************************************************************************)
(* closest_intersection  (main.rs 96-115)                                  *)
(* The result is [panic, some, s, i]: s is the position of the sphere in   *)
(* scene.spheres (the reference the code returns), i the distance.         *)
(***************************************************************************)
\* A filter that keeps a NaN distance.
keep_any(intersection) == intersection.some

\* The closure of filter_map (lines 101-109): Some((s, i)) unless i is NaN.
keep(intersection) == intersection.some /\ ~intersection.t.nan

\* One step of filter_map: the candidate (s, i) of sphere k, if kept.
candidate(k, intersection) ==
    IF keep(intersection) THEN <<[s |-> k, i |-> intersection.t]>> ELSE <<>>

RECURSIVE filter_map(_, _, _)
filter_map(sc, r, k) ==
    IF k > Len(sc.spheres) THEN <<>>
    ELSE candidate(k, intersects(sc.spheres[k], r)) \o filter_map(sc, r, k + 1)

\* i1.partial_cmp(&i2): None when an operand is NaN.
partial_cmp(i1, i2) ==
    IF i1.nan \/ i2.nan THEN "None"
    ELSE LET c == SurdCmp(i1, i2)
         IN  IF c < 0 THEN "Less" ELSE IF c > 0 THEN "Greater" ELSE "Equal"

\* A fold that lets the later of two equal elements win.
select_last(x, y, ord) == IF ord = "Less" THEN x ELSE y

\* A fold that keeps the greater element.
select_max(x, y, ord) == IF ord = "Less" THEN y ELSE x

\* Iterator::min_by folds with: Ordering::Greater => y, _ => x.
select(x, y, ord) == IF ord = "Greater" THEN y ELSE x

NoClosest == [panic |-> FALSE, some |-> FALSE, s |-> 0, i |-> NaN]

Panicked == [panic |-> TRUE, some |-> FALSE, s |-> 0, i |-> NaN]

Selected(x) == [panic |-> FALSE, some |-> TRUE, s |-> x.s, i |-> x.i]

\* min_by over cands[k..], acc the minimum so far; the comparator of lines
\* 110-114 unwraps partial_cmp, which panics on None.
RECURSIVE min_by(_, _, _)
min_by(acc, cands, k) ==
    IF k > Len(cands) THEN Selected(acc)
    ELSE IF partial_cmp(acc.i, cands[k].i) = "None" THEN Panicked
    ELSE min_by(select(acc, cands[k], partial_cmp(acc.i, cands[k].i)), cands, k + 1)

\* min_by of an iterator: None when it is empty.
min_of(cands) == IF cands = <<>> THEN NoClosest ELSE min_by(cands[1], cands, 2)

closest_intersection(sc, r) == min_of(filter_map(sc, r, 1))

(***************************************************************************)
(* get_pixel_color  (main.rs 117-130)                                      *)
(* A colour is <<r, g, b, a>>.  The result is [panic, color].              *)
(***************************************************************************)
Rgba(r, g, b, a) == <<r, g, b, a>>

\* (255.0 * facing_ratio) as u8, for facing_ratio = (e + c*sqrt(K)) / sqrt(n):
\* the cast truncates and saturates to 0..255.
shade_u8(e, c, K, n) ==
    LET fits(s) == SgnTwoRoots(255 * e, c, 65025 * K, -1, s * s * n) >= 0
    IN  IF ~fits(0) THEN 0
        ELSE CHOOSE s \in 0..255 : fits(s) /\ (s = 255 \/ ~fits(s + 1))

\* A background with alpha 0.
background_transparent == Rgba(0, 0, 0, 0)

\* None => Rgba([0, 0, 0, 255])
background == Rgba(0, 0, 0, 255)

\* Lines 120-127, given the hit ci = (sphere, ray_distance) and
\* l = sphere.center - ray.origin.  For a unit direction (the ray built at
\* lines 171-175):
\*   normal . (-direction) = (l . direction) - ray_distance * (direction . direction)
\*                         = (e - sg*sqrt(K)) / sqrt(n)
\* with e = l . (x, y, z) - a, where ray_distance = (a + sg*sqrt(K)) / sqrt(n).
shade(i, l, direction) ==
    shade_u8(Dot(l, direction) - i.a, -i.sg, i.K, i.n)

gray(s) == Rgba(s, s, s, 255)

\* The match of lines 119-129 on the closest intersection ci.
color_of(sc, r, ci) ==
    IF ci.panic THEN [panic |-> TRUE, color |-> background]
    ELSE IF ~ci.some THEN [panic |-> FALSE, color |-> background]
    ELSE [panic |-> FALSE,
          color |-> gray(shade(ci.i, Sub(sc.spheres[ci.s].center, r.origin), r.direction))]

get_pixel_color(sc, r) == color_of(sc, r, closest_intersection(sc, r))

(***************************************************************************)
(* render_frame  (main.rs 132-181)                                         *)
(***************************************************************************)
\* tan(fov.to_radians() / 2.0), for the field of view main uses.
fov_scalar(cam) == CASE cam.fov = 90 -> 1

\* Lines 155-175.  With w = width, h = height >= 1 and fov_scalar = 1:
\*   px_screen_x = (2*(px_x + 0.5)/w - 1) * (w/h) = (2*px_x + 1 - w) / h
\*   px_screen_y = 1 - 2*(px_y + 0.5)/h           = (h - 2*px_y - 1) / h
\* The direction is normalized, so the positive factor h is dropped.  With
\* h = 0 px_ndc_y is infinite and the normalized vector is NaN.
pixel_ray(cam, opts, x, y) ==
    LET w == opts.width
        h == opts.height
        f == fov_scalar(cam)
        v == Vec(f * (2 * x + 1 - w) - h * cam.position.x,
                 f * (h - 2 * y - 1) - h * cam.position.y,
                 (-h) - h * cam.position.z)
    IN  Ray(cam.position, IF h = 0 THEN NaNDirection ELSE normalize(v))

Cells(opts) == (0..(opts.width - 1)) \X (0..(opts.height - 1))

\* RgbaImage::put_pixel panics outside the image.
InBounds(opts, x, y) == x < opts.width /\ y < opts.height

\* A wrap test that lets px_y run one past the last row.
wraps_late(y, opts) == y > opts.height

\* if px_y >= render_options.height
wraps(y, opts) == y >= opts.height

\* Lines 146-149: the pixel position after the column wrap.
WrapX == IF wraps(px_y, render_options) THEN px_x + 1 ELSE px_x

WrapY == IF wraps(px_y, render_options) THEN 0 ELSE px_y

\* main 247: render_frame is entered; lines 143-144.
CallRenderFrame ==
    /\ pc = "idle"
    /\ pc' = "loop"
    /\ px_x' = 0
    /\ px_y' = 0
    /\ puts' = <<>>
    /\ prior' = img
    /\ UNCHANGED <<scene, camera, render_options, img, ref, ray, result>>

\* One iteration that ends at line 151.
LoopReturn ==
    /\ pc = "loop"
    /\ WrapX >= render_options.width
    /\ pc' = "done"
    /\ px_x' = WrapX
    /\ px_y' = WrapY
    /\ UNCHANGED <<scene, camera, render_options, img, puts, prior, ref, ray, result>>

\* Lines 177-179 with a background pixel left as it was in the buffer.
PutPixelOverHits(x, y, r, color) ==
    /\ ~color.panic
    /\ InBounds(render_options, x, y)
    /\ ray' = r
    /\ img' = IF color.color = Rgba(0, 0, 0, 255) THEN img
              ELSE [img EXCEPT ![<<x, y>>] = color.color]
    /\ puts' = Append(puts, <<x, y>>)
    /\ px_x' = x
    /\ px_y' = y + 1
    /\ UNCHANGED <<scene, camera, render_options, pc, prior, ref, result>>

\* Lines 169-179 for the pixel (x, y), its ray r and its colour.
PutPixel(x, y, r, color) ==
    /\ ~color.panic
    /\ InBounds(render_options, x, y)
    /\ ray' = r
    /\ img' = [img EXCEPT ![<<x, y>>] = color.color]
    /\ puts' = Append(puts, <<x, y>>)
    /\ px_x' = x
    /\ px_y' = y + 1
    /\ UNCHANGED <<scene, camera, render_options, pc, prior, ref, result>>

\* The same lines when they panic: in the comparator of
\* closest_intersection, or in put_pixel for a pixel outside the image.
PutPixelPanics(x, y, r, color) ==
    /\ color.panic \/ ~InBounds(render_options, x, y)
    /\ ray' = r
    /\ puts' = IF color.panic THEN puts ELSE Append(puts, <<x, y>>)
    /\ pc' = "panic"
    /\ px_x' = x
    /\ px_y' = y
    /\ UNCHANGED <<scene, camera, render_options, img, prior, ref, result>>

PixelRay == pixel_ray(camera, render_options, WrapX, WrapY)

\* One iteration that reaches line 178 and writes the pixel.
LoopPutPixel ==
    /\ pc = "loop"
    /\ WrapX < render_options.width
    /\ PutPixel(WrapX, WrapY, PixelRay, get_pixel_color(scene, PixelRay))

\* One iteration that panics.
LoopPanic ==
    /\ pc = "loop"
    /\ WrapX < render_options.width
    /\ PutPixelPanics(WrapX, WrapY, PixelRay, get_pixel_color(scene, PixelRay))

(***************************************************************************)
(* main  (main.rs 184-264)                                                 *)
(***************************************************************************)
NoRef == [some |-> FALSE, scene |-> [spheres |-> <<>>], img |-> <<>>, prior |-> <<>>]

SphereA == Sphere(Vec(0, 1, -3), Radius(1))

SphereB == Sphere(Vec(0, 0, -3), Radius(2))

\* The scenes the frame loop moves between.
FrameScenes ==
    { [spheres |-> <<>>], [spheres |-> <<SphereA>>], [spheres |-> <<SphereA, SphereB>>] }

Cameras ==
    { [position |-> p, up |-> Vec(0, 1, 0), at |-> Vec(1, 0, 0), fov |-> 90] :
        p \in {Vec(0, 0, 0), Vec(0, 0, -1)} }

\* RgbaImage::new gives zeroed pixels; a second value stands for any other
\* content the caller's buffer may hold.
PriorColors == { Rgba(0, 0, 0, 0), Rgba(9, 9, 9, 9) }

\* Lines 249-262: the frame is shown and the caller changes the scene (or
\* leaves it as it is) before the next frame.  ref remembers one finished
\* frame: its scene, the buffer it started from and the buffer it produced.
Tick ==
    /\ pc = "done"
    /\ pc' = "idle"
    /\ scene' \in FrameScenes
    /\ \/ UNCHANGED ref
       \/ /\ ~ref.some
          /\ ref' = [some |-> TRUE, scene |-> scene, img |-> img, prior |-> prior]
    /\ UNCHANGED <<camera, render_options, img, px_x, px_y, puts, prior, ray, result>>

NoRay == Ray(Vec(0, 0, 0), NaNDirection)

NoResult == [op |-> "none", s |-> 0, hit |-> None, closest |-> NoClosest]

Init ==
    /\ scene \in FrameScenes
    /\ camera \in Cameras
    /\ render_options \in [width : 0..MaxWidth, height : 0..MaxHeight]
    /\ \E c \in PriorColors : img = [cell \in Cells(render_options) |-> c]
    /\ prior = img
    /\ px_x = 0
    /\ px_y = 0
    /\ pc = "idle"
    /\ puts = <<>>
    /\ ref = NoRef
    /\ ray = NoRay
    /\ result = NoResult

Next == CallRenderFrame \/ LoopReturn \/ LoopPutPixel \/ LoopPanic \/ Tick

Spec == Init /\ [][Next]_vars

(***************************************************************************)
(* Sphere::intersects and closest_intersection applied to chosen inputs    *)
(***************************************************************************)
IsectSpheres ==
    { Sphere(c, Radius(v)) : c \in {Vec(0, 0, -5), Vec(0, 0, -6), Vec(0, 0, 5)},
                             v \in {-1, 0, 1, 2} }
    \cup { Sphere(Vec(0, 0, -5), NaNRadius), Sphere(Vec(1, 0, -5), Radius(1)) }

IsectScenes ==
    UNION { { [spheres |-> q] : q \in [1..k -> IsectSpheres] } : k \in 0..MaxSpheres }

\* Unit directions (one of them the NaN vector of a normalized zero
\* vector), one direction of length 2, and an origin at a sphere's center.
IsectRays ==
    { Ray(Vec(0, 0, 0), normalize(Vec(0, 0, -1))),
      Ray(Vec(0, 0, 0), normalize(Vec(1, 0, -5))),
      Ray(Vec(0, 0, 0), normalize(Vec(0, 0, 0))),
      Ray(Vec(0, 0, 0), [x |-> 0, y |-> 0, z |-> -2, n |-> 1]),
      Ray(Vec(0, 0, -5), normalize(Vec(0, 0, -1))) }

IsectInit ==
    /\ scene \in IsectScenes
    /\ ray \in IsectRays
    /\ result = NoResult
    /\ pc = "start"
    /\ camera \in { c \in Cameras : c.position = Vec(0, 0, 0) }
    /\ render_options = [width |-> 0, height |-> 0]
    /\ img = [cell \in Cells(render_options) |-> Rgba(0, 0, 0, 0)]
    /\ prior = img
    /\ px_x = 0
    /\ px_y = 0
    /\ puts = <<>>
    /\ ref = NoRef

\* s.intersects(ray) for the sphere at position k of the scene.
CallIntersects ==
    /\ pc = "start"
    /\ \E k \in 1..Len(scene.spheres) :
          result' = [op |-> "intersects", s |-> k,
                     hit |-> intersects(scene.spheres[k], ray), closest |-> NoClosest]
    /\ pc' = "returned"
    /\ UNCHANGED <<scene, camera, render_options, img, px_x, px_y, puts, prior, ref, ray>>

\* closest_intersection(&scene, ray).
CallClosest ==
    /\ pc = "start"
    /\ result' = [op |-> "closest", s |-> 0, hit |-> None,
                  closest |-> closest_intersection(scene, ray)]
    /\ pc' = "returned"
    /\ UNCHANGED <<scene, camera, render_options, img, px_x, px_y, puts, prior, ref, ray>>

IsectNext == CallIntersects \/ CallClosest

IsectSpec == IsectInit /\ [][IsectNext]_vars

(***************************************************************************)
(* Properties of render_frame  (Spec, FairSpec)                            *)
(***************************************************************************)
Width == render_options.width

Height == render_options.height

PutSet == { puts[i] : i \in 1..Len(puts) }

Unwritten == Cardinality(Cells(render_options) \ PutSet)

\* Inside a frame of at least 1 x 1: no panic, every put_pixel inside the
\* image, no cell written twice; the loop can always take its next
\* iteration without a panic; at the return every cell is written.
C1_WritesWithinImage ==
    (Width >= 1 /\ Height >= 1) =>
        /\ pc # "panic"
        /\ PutSet \subseteq Cells(render_options)
        /\ Cardinality(PutSet) = Len(puts)
        /\ pc = "loop" =>
              \/ WrapX >= Width
              \/ /\ InBounds(render_options, WrapX, WrapY)
                 /\ ~get_pixel_color(scene, PixelRay).panic
        /\ pc = "done" => PutSet = Cells(render_options)

\* Each iteration of the loop either returns or writes one cell that was
\* not written before, so the loop ends after width * height writes.
C1_Progress ==
    (pc = "loop" /\ Width >= 1 /\ Height >= 1) =>
        \/ pc' = "done" /\ Unwritten = 0 /\ puts' = puts
        \/ pc' = "loop" /\ Unwritten' = Unwritten - 1 /\ Len(puts') = Len(puts) + 1

\* C1: for width >= 1 and height >= 1 render_frame terminates, and when it
\* returns every cell of the image has been written exactly once and no
\* coordinate outside the image has been written.
C1_EveryCellOnce == [](C1_WritesWithinImage) /\ [][C1_Progress]_vars

C1_Witness ==
    /\ pc = "done"
    /\ Width >= 2
    /\ Height >= 2
    /\ Len(puts) = Width * Height
    /\ PutSet = Cells(render_options)

\* C2: with width = 0 or height = 0 render_frame returns without calling
\* put_pixel and without a panic.
C2_ZeroDimensionNoWork ==
    (Width = 0 \/ Height = 0) => (puts = <<>> /\ pc # "panic")

\* C4: the buffer render_frame leaves is a function of (scene, camera,
\* render options): a finished frame equals the remembered finished frame
\* of the same scene, whatever each of the two buffers held before.
C4_SameInputsSameBuffer ==
    (pc = "done" /\ ref.some /\ ref.scene = scene) => img = ref.img

C4_Witness ==
    /\ pc = "done"
    /\ ref.some
    /\ ref.scene = scene
    /\ ref.prior # prior
    /\ Width >= 2
    /\ Height >= 2
    /\ \E c \in Cells(render_options) : prior[c] # img[c]
    /\ \E c \in Cells(render_options) : img[c] # Rgba(0, 0, 0, 255)
    /\ img = ref.img

\* C5: with an empty scene every pixel is (0, 0, 0, 255) after render_frame.
C5_EmptySceneBlack ==
    (pc = "done" /\ scene.spheres = <<>>) =>
        \A c \in Cells(render_options) : img[c] = Rgba(0, 0, 0, 255)

C5_Witness ==
    /\ pc = "done"
    /\ scene.spheres = <<>>
    /\ Width >= 1
    /\ Height >= 1
    /\ \A c \in Cells(render_options) :
          prior[c] # Rgba(0, 0, 0, 255) /\ img[c] = Rgba(0, 0, 0, 255)

(***************************************************************************)
(* Properties of Sphere::intersects and closest_intersection  (IsectSpec)  *)
(***************************************************************************)
Returned(op) == pc = "returned" /\ result.op = op

NumSpheres == Len(scene.spheres)

HitOf(k) == intersects(scene.spheres[k], ray)

\* The spheres that report a hit at a distance (not NaN).
ValidHits == { k \in 1..NumSpheres : HitOf(k).some /\ ~HitOf(k).t.nan }

DistinctHits ==
    \A j, k \in ValidHits : j # k => SurdCmp(HitOf(j).t, HitOf(k).t) # 0

Nearest(k) ==
    k \in ValidHits /\ \A j \in ValidHits : SurdCmp(HitOf(k).t, HitOf(j).t) <= 0

Tied == { k \in ValidHits : Nearest(k) }

Min(S) == CHOOSE m \in S : \A j \in S : m <= j

Max(S) == CHOOSE m \in S : \A j \in S : m >= j

Perms == { p \in [1..NumSpheres -> 1..NumSpheres] :
             \A i, j \in 1..NumSpheres : i # j => p[i] # p[j] }

Permuted(p) == [spheres |-> [i \in 1..NumSpheres |-> scene.spheres[p[i]]]]

Reversed == Permuted([i \in 1..NumSpheres |-> NumSpheres + 1 - i])

\* The closest intersection of another scene agrees with c: the same
\* sphere (by value) at the same distance, or none in both.
SameClosest(c, sc, other) ==
    /\ ~other.panic
    /\ other.some = c.some
    /\ c.some => (sc.spheres[other.s] = scene.spheres[c.s] /\ other.i = c.i)

\* C3: when the hit distances are pairwise distinct, closest_intersection
\* returns the sphere with the minimum hit distance and that distance, the
\* same for every order of the scene, and none exactly when no sphere hits.
C3_ClosestIsNearest ==
    (Returned("closest") /\ DistinctHits) =>
        /\ ~result.closest.panic
        /\ result.closest.some <=> (ValidHits # {})
        /\ result.closest.some =>
              /\ Nearest(result.closest.s)
              /\ result.closest.i = HitOf(result.closest.s).t
        /\ \A p \in Perms :
              SameClosest(result.closest, Permuted(p),
                          closest_intersection(Permuted(p), ray))

C3_Witness ==
    /\ Returned("closest")
    /\ DistinctHits
    /\ Cardinality(ValidHits) >= 2
    /\ result.closest.some
    /\ result.closest.s = 2
    /\ closest_intersection(Reversed, ray).s = NumSpheres - 1

\* C6: a sphere that lies entirely behind the ray origin along the ray
\* direction is not intersected, also when the ray's line passes through it.
\* (l . direction + |radius| * |direction| < 0.)
EntirelyBehind(s, r) ==
    /\ ~s.radius.nan
    /\ r.direction.n # 0
    /\ Dot(Sub(s.center, r.origin), r.direction) < 0
    /\ Dot(Sub(s.center, r.origin), r.direction) * Dot(Sub(s.center, r.origin), r.direction)
         > s.radius.v * s.radius.v * Dot(r.direction, r.direction)

\* The ray's line meets the sphere of radius |radius|: d2 <= radius^2.
LineMeets(s, r) ==
    r.direction.n * Dot(Sub(s.center, r.origin), Sub(s.center, r.origin))
      - Dot(Sub(s.center, r.origin), r.direction) * Dot(Sub(s.center, r.origin), r.direction)
    <= r.direction.n * s.radius.v * s.radius.v

C6_BehindIsNone ==
    (Returned("intersects") /\ EntirelyBehind(scene.spheres[result.s], ray)) =>
        ~result.hit.some

C6_Witness ==
    /\ Returned("intersects")
    /\ EntirelyBehind(scene.spheres[result.s], ray)
    /\ LineMeets(scene.spheres[result.s], ray)
    /\ scene.spheres[result.s].radius.v > 0
    /\ ~result.hit.some

\* The center is k direction-lengths ahead of the origin, on the ray.
CenterAhead(s, r, k) == Sub(s.center, r.origin) = Vec(k * r.direction.x, k * r.direction.y, k * r.direction.z)

Reach(s, r) ==
    1..(Abs(s.center.x - r.origin.x) + Abs(s.center.y - r.origin.y)
          + Abs(s.center.z - r.origin.z))

IsUnit(direction) == direction.n # 0 /\ Dot(direction, direction) = direction.n

\* C7: for a unit ray through the center of a sphere of radius r > 0 at
\* distance D > r ahead, intersects returns D - r.  With D = k * sqrt(n):
\* D - r = (k*n - sqrt(r*r*n)) / sqrt(n).  Center (0,0,-5), radius 1, origin
\* (0,0,0), direction (0,0,-1) gives 4.
C7_NearRoot ==
    Returned("intersects") =>
        LET s == scene.spheres[result.s]
            n == ray.direction.n
        IN  /\ \A k \in Reach(s, ray) :
                  ( /\ IsUnit(ray.direction)
                    /\ ~s.radius.nan
                    /\ s.radius.v > 0
                    /\ CenterAhead(s, ray, k)
                    /\ k * k * n > s.radius.v * s.radius.v )
                  => /\ result.hit.some
                     /\ SurdEq(result.hit.t, Surd(k * n, -1, s.radius.v * s.radius.v * n, n))
            /\ ( /\ s = Sphere(Vec(0, 0, -5), Radius(1))
                 /\ ray = Ray(Vec(0, 0, 0), normalize(Vec(0, 0, -1))) )
               => /\ result.hit.some
                  /\ SurdEq(result.hit.t, Surd(4, 1, 0, 1))

C7_Witness ==
    /\ Returned("intersects")
    /\ \/ /\ scene.spheres[result.s] = Sphere(Vec(0, 0, -5), Radius(1))
          /\ ray = Ray(Vec(0, 0, 0), normalize(Vec(0, 0, -1)))
          /\ SurdEq(result.hit.t, Surd(4, 1, 0, 1))
       \/ /\ scene.spheres[result.s] = Sphere(Vec(1, 0, -5), Radius(1))
          /\ ray = Ray(Vec(0, 0, 0), normalize(Vec(1, 0, -5)))
          /\ SurdEq(result.hit.t, Surd(26, -1, 26, 26))
    /\ result.hit.some

\* C8: closest_intersection never panics, also with spheres whose
\* intersection is NaN or none, and it returns the nearest of the hits that
\* remain whenever there is one.
C8_NaNNeverBlocks ==
    Returned("closest") =>
        /\ ~result.closest.panic
        /\ (ValidHits # {}) => (result.closest.some /\ Nearest(result.closest.s))
        /\ result.closest.some => ~result.closest.i.nan

C8_Witness ==
    /\ Returned("closest")
    /\ NumSpheres >= 2
    /\ HitOf(1).some
    /\ HitOf(1).t.nan
    /\ result.closest.some
    /\ Nearest(result.closest.s)

WithRadius(s, v) == Sphere(s.center, Radius(v))

\* C9 as claimed: a sphere with radius <= 0 never reports a hit.
C9_NonPositiveRadiusMisses ==
    (Returned("intersects") /\ ~scene.spheres[result.s].radius.nan
       /\ scene.spheres[result.s].radius.v <= 0)
    => ~result.hit.some

\* C9 amended: the squared radius is radius * radius, never negative.  A
\* sphere of negative radius intersects exactly as the sphere of radius
\* |radius| at the same center, so a unit ray that hits that sphere hits it
\* too; a sphere of radius 0 is hit by a unit ray only when the ray's line
\* passes through its center (d2 = 0).
C9_SquaredRadius ==
    (Returned("intersects") /\ ~scene.spheres[result.s].radius.nan
       /\ scene.spheres[result.s].radius.v <= 0)
    => /\ result.hit
            = intersects(WithRadius(scene.spheres[result.s],
                                    Abs(scene.spheres[result.s].radius.v)), ray)
       /\ (scene.spheres[result.s].radius.v < 0
             /\ IsUnit(ray.direction)
             /\ Dot(Sub(scene.spheres[result.s].center, ray.origin), ray.direction) >= 0
             /\ LineMeets(scene.spheres[result.s], ray))
          => result.hit.some
       /\ (scene.spheres[result.s].radius.v = 0 /\ IsUnit(ray.direction) /\ result.hit.some)
          => /\ result.hit.t.K = 0
             /\ ray.direction.n
                  * Dot(Sub(scene.spheres[result.s].center, ray.origin),
                        Sub(scene.spheres[result.s].center, ray.origin))
                = result.hit.t.a * result.hit.t.a

C9_Witness ==
    /\ Returned("intersects")
    /\ scene.spheres[result.s].radius = Radius(-1)
    /\ result.hit.some
    /\ ~result.hit.t.nan
    /\ result.hit.t.K > 0

\* C10: when several spheres report the same minimum hit distance,
\* closest_intersection returns the one earliest in the scene's order; in
\* the reversed scene the winner is the sphere that was last among them.
C10_TieEarliest ==
    (Returned("closest") /\ result.closest.some /\ ~result.closest.panic) =>
        /\ result.closest.s = Min(Tied)
        /\ closest_intersection(Reversed, ray).s = NumSpheres + 1 - Max(Tied)

C10_Witness ==
    /\ Returned("closest")
    /\ Cardinality(Tied) >= 2
    /\ scene.spheres[Min(Tied)] # scene.spheres[Max(Tied)]
    /\ result.closest.s = Min(Tied)
    /\ Reversed.spheres[closest_intersection(Reversed, ray).s] = scene.spheres[Max(Tied)]

====
